---- MODULE Spec2Model ----
(***************************************************************************)
(* Model of the ripple-address-codec library (src/src/lib.rs): base58      *)
(* encoding and decoding of XRP Ledger account ids and seeds, with the     *)
(* prefix / payload-length / checksum framing of the codec.                *)
(*                                                                         *)
(* Bytes are integers 0..255, a byte string (Vec<u8>, &[u8], [u8; N]) is a *)
(* sequence of bytes, and a text string (&str, String) is a sequence of    *)
(* one-character strings.                                                  *)
(***************************************************************************)
EXTENDS Integers, Sequences, FiniteSets, TLC

(***************************************************************************)
(* SHA-256 (ring::digest::digest(&SHA256, ..), FIPS 180-4).  A 32-bit word *)
(* is a pair <<hi, lo>> of 16-bit halves, so that no intermediate value    *)
(* leaves the range of the model checker's integers.                       *)
(***************************************************************************)
RECURSIVE BitAnd(_, _, _)
BitAnd(a, b, n) ==
   IF n = 0 THEN 0
   ELSE (a % 2) * (b % 2) + 2 * BitAnd(a \div 2, b \div 2, n - 1)

AndByte == [a \in 0..255 |-> [b \in 0..255 |-> BitAnd(a, b, 8)]]

And16(a, b) == AndByte[a \div 256][b \div 256] * 256 + AndByte[a % 256][b % 256]

Xor16(a, b) == a + b - 2 * And16(a, b)

WAnd(x, y) == <<And16(x[1], y[1]), And16(x[2], y[2])>>

WXor(x, y) == <<Xor16(x[1], y[1]), Xor16(x[2], y[2])>>

WNot(x) == <<65535 - x[1], 65535 - x[2]>>

WAdd(x, y) ==
   LET lo == x[2] + y[2]
   IN  <<(x[1] + y[1] + lo \div 65536) % 65536, lo % 65536>>

Rotr(x, n) ==
   LET y == IF n >= 16 THEN <<x[2], x[1]>> ELSE x
       m == n % 16
       p == 2 ^ m
       q == 2 ^ (16 - m)
   IN  <<y[1] \div p + (y[2] % p) * q, y[2] \div p + (y[1] % p) * q>>

Shr(x, n) ==
   LET p == 2 ^ n
       q == 2 ^ (16 - n)
   IN  <<x[1] \div p, x[2] \div p + (x[1] % p) * q>>

BigSigma0(x) == WXor(WXor(Rotr(x, 2), Rotr(x, 13)), Rotr(x, 22))

BigSigma1(x) == WXor(WXor(Rotr(x, 6), Rotr(x, 11)), Rotr(x, 25))

SmallSigma0(x) == WXor(WXor(Rotr(x, 7), Rotr(x, 18)), Shr(x, 3))

SmallSigma1(x) == WXor(WXor(Rotr(x, 17), Rotr(x, 19)), Shr(x, 10))

Ch(x, y, z) == WXor(WAnd(x, y), WAnd(WNot(x), z))

Maj(x, y, z) == WXor(WXor(WAnd(x, y), WAnd(x, z)), WAnd(y, z))

SHA256_K ==
   <<
      <<17034, 12184>>, <<28983, 17553>>, <<46528, 64463>>, <<59829, 56229>>,
      <<14678, 49755>>, <<23025, 4593>>, <<37439, 33444>>, <<43804, 24277>>,
      <<55303, 43672>>, <<4739, 23297>>, <<9265, 34238>>, <<21772, 32195>>,
      <<29374, 23924>>, <<32990, 45566>>, <<39900, 1703>>, <<49563, 61812>>,
      <<58523, 27073>>, <<61374, 18310>>, <<4033, 40390>>, <<9228, 41420>>,
      <<11753, 11375>>, <<19060, 33962>>, <<23728, 43484>>, <<30457, 35034>>,
      <<38974, 20818>>, <<43057, 50797>>, <<45059, 10184>>, <<48985, 32711>>,
      <<50912, 3059>>, <<54695, 37191>>, <<1738, 25425>>, <<5161, 10599>>,
      <<10167, 2693>>, <<11803, 8504>>, <<19756, 28156>>, <<21304, 3347>>,
      <<25866, 29524>>, <<30314, 2747>>, <<33218, 51502>>, <<37490, 11397>>,
      <<41663, 59553>>, <<43034, 26187>>, <<49739, 35696>>, <<51052, 20899>>,
      <<53650, 59417>>, <<54937, 1572>>, <<62478, 13701>>, <<4202, 41072>>,
      <<6564, 49430>>, <<7735, 27656>>, <<10056, 30540>>, <<13488, 48309>>,
      <<14620, 3251>>, <<20184, 43594>>, <<23452, 51791>>, <<26670, 28659>>,
      <<29839, 33518>>, <<30885, 25455>>, <<33992, 30740>>, <<36039, 520>>,
      <<37054, 65530>>, <<42064, 27883>>, <<48889, 41975>>, <<50801, 30962>> >>

SHA256_H0 ==
   <<
      <<27145, 58983>>, <<47975, 44677>>, <<15470, 62322>>, <<42319, 62778>>,
      <<20750, 21119>>, <<39685, 26764>>, <<8067, 55723>>, <<23520, 52505>> >>

\* The padded message: the bytes, 0x80, zeros up to 56 mod 64, and the bit
\* length as a 64-bit big-endian integer.
Sha256Pad(data) ==
   LET n == Len(data)
       z == (119 - (n % 64)) % 64
       bits == n * 8
   IN  data \o <<128>> \o [i \in 1..z |-> 0]
            \o <<0, 0, 0, 0>>
            \o <<(bits \div 16777216) % 256, (bits \div 65536) % 256,
                 (bits \div 256) % 256, bits % 256>>

\* The 16 big-endian words of block number b (from 0) of the padded message.
BlockWords(padded, b) ==
   [i \in 1..16 |->
      LET o == 64 * b + 4 * (i - 1)
      IN  <<padded[o + 1] * 256 + padded[o + 2], padded[o + 3] * 256 + padded[o + 4]>>]

\* One more word of the message schedule.
ScheduleStep(w) ==
   LET t == Len(w) + 1
   IN  Append(w, WAdd(WAdd(SmallSigma1(w[t - 2]), w[t - 7]),
                      WAdd(SmallSigma0(w[t - 15]), w[t - 16])))

\* k more words of the message schedule.  The steps are taken in order, split
\* in halves to keep the evaluation shallow; the test on the first half's
\* length always succeeds, and makes it a value before the second half starts.
RECURSIVE Schedule(_, _)
Schedule(w, k) ==
   IF k = 0 THEN w
   ELSE IF k = 1 THEN ScheduleStep(w)
   ELSE LET first == Schedule(w, k \div 2)
        IN  IF Len(first) > 0 THEN Schedule(first, k - k \div 2) ELSE first

\* Round t of the compression function on the working variables a..h.
Round(s, w, t) ==
   LET t1 == WAdd(WAdd(WAdd(s[8], BigSigma1(s[5])),
                       WAdd(Ch(s[5], s[6], s[7]), SHA256_K[t])), w[t])
       t2 == WAdd(BigSigma0(s[1]), Maj(s[1], s[2], s[3]))
   IN  <<WAdd(t1, t2), s[1], s[2], s[3], WAdd(s[4], t1), s[5], s[6], s[7]>>

\* Rounds lo..hi in order, split in halves as in Schedule.
RECURSIVE Rounds(_, _, _, _)
Rounds(s, w, lo, hi) ==
   IF lo = hi THEN Round(s, w, lo)
   ELSE LET mid == (lo + hi) \div 2
            first == Rounds(s, w, lo, mid)
        IN  IF Len(first) > 0 THEN Rounds(first, w, mid + 1, hi) ELSE first

Compress(h, words) ==
   LET s == Rounds(h, Schedule(words, 48), 1, 64)
   IN  [i \in 1..8 |-> WAdd(h[i], s[i])]

RECURSIVE Blocks(_, _, _)
Blocks(h, padded, b) ==
   IF 64 * b >= Len(padded) THEN h
   ELSE Blocks(Compress(h, BlockWords(padded, b)), padded, b + 1)

\* sha256_digest: the 32 bytes of the digest.
sha256_digest(data) ==
   LET h == Blocks(SHA256_H0, Sha256Pad(data), 0)
   IN  [i \in 1..32 |->
          LET w == h[(i - 1) \div 4 + 1]
              k == (i - 1) % 4
          IN  IF k = 0 THEN w[1] \div 256
              ELSE IF k = 1 THEN w[1] % 256
              ELSE IF k = 2 THEN w[2] \div 256
              ELSE w[2] % 256]


\* calc_checksum: the first CHECKSUM_LENGTH bytes of the double digest.
CHECKSUM_LENGTH == 4

ENTROPY_LEN == 16

calc_checksum(bytes) ==
   SubSeq(sha256_digest(sha256_digest(bytes)), 1, CHECKSUM_LENGTH)

(***************************************************************************)
(* base_x::encode and base_x::decode over the XRP alphabet.  A number is a *)
(* little-endian sequence of digits, as in the crate: encode carries the   *)
(* bytes into base-58 digits, decode carries the digits into bytes, and    *)
(* both add one leading zero digit per leading zero of the input.          *)
(***************************************************************************)
ALPHABET ==
   << "r", "p", "s", "h", "n", "a", "f", "3", "9", "w", "B", "U", "D", "N",
      "E", "G", "H", "J", "K", "L", "M", "4", "P", "Q", "R", "S", "T", "7",
      "V", "W", "X", "Y", "Z", "2", "b", "c", "d", "e", "C", "g", "6", "5",
      "j", "k", "m", "8", "o", "F", "q", "i", "1", "t", "u", "v", "A", "x",
      "y", "z" >>

\* num * mul + carry, for num a little-endian number in base `base`, from
\* digit i on: each digit takes the carry, and the last carry is pushed.
RECURSIVE MulAdd(_, _, _, _, _)
MulAdd(num, mul, base, carry, i) ==
   IF i <= Len(num)
   THEN LET v == num[i] * mul + carry
        IN  MulAdd([num EXCEPT ![i] = v % base], mul, base, v \div base, i + 1)
   ELSE IF carry > 0
        THEN MulAdd(Append(num, carry % base), mul, base, carry \div base, i + 1)
        ELSE num

\* The number of leading elements of s equal to z, among the first n.
RECURSIVE Leaders(_, _, _)
Leaders(s, z, n) ==
   IF n = 0 \/ s = <<>> \/ Head(s) # z THEN 0
   ELSE 1 + Leaders(Tail(s), z, n - 1)

Reverse(s) == [i \in 1..Len(s) |-> s[Len(s) + 1 - i]]

\* The digits of the bytes input[i..], carried into digits (little-endian).
RECURSIVE EncodeDigits(_, _, _)
EncodeDigits(digits, input, i) ==
   IF i > Len(input) THEN digits
   ELSE LET next == MulAdd(digits, 256, Len(ALPHABET), input[i], 1)
        IN  IF Len(next) > 0 THEN EncodeDigits(next, input, i + 1) ELSE next

base_x_encode(input) ==
   IF Len(input) = 0 THEN <<>>
   ELSE LET digits == EncodeDigits(<<0>>, input, 1)
            leaders == Leaders(input, 0, Len(input) - 1)
            all == digits \o [i \in 1..leaders |-> 0]
        IN  [i \in 1..Len(all) |-> ALPHABET[all[Len(all) + 1 - i] + 1]]

InAlphabet(c) == \E i \in 1..Len(ALPHABET) : ALPHABET[i] = c

\* The value of a character of the alphabet: its place, from 0.
Lookup(c) == (CHOOSE i \in 1..Len(ALPHABET) : ALPHABET[i] = c) - 1

\* The bytes of the characters input[i..], carried into bytes (little-endian).
RECURSIVE DecodeBytes(_, _, _)
DecodeBytes(bytes, input, i) ==
   IF i > Len(input) THEN bytes
   ELSE LET next == MulAdd(bytes, Len(ALPHABET), 256, Lookup(input[i]), 1)
        IN  IF Len(next) > 0 THEN DecodeBytes(next, input, i + 1) ELSE next

Ok(v) == [kind |-> "Ok", val |-> v]

DecodeError == [kind |-> "DecodeError", val |-> <<>>]

\* A panic of the thread: an arithmetic overflow, a slice out of range, an
\* unwrap of an Err.
Panic == [kind |-> "Panic", val |-> <<>>]

base_x_decode(input) ==
   IF Len(input) = 0 THEN Ok(<<>>)
   ELSE IF \E i \in 1..Len(input) : ~InAlphabet(input[i]) THEN DecodeError
   ELSE LET bytes == DecodeBytes(<<0>>, input, 1)
            leaders == Leaders(input, ALPHABET[1], Len(input) - 1)
        IN  Ok(Reverse(bytes \o [i \in 1..leaders |-> 0]))


(***************************************************************************)
(* The format descriptors (trait Settings and its three implementations)   *)
(* and the two algorithms.                                                 *)
(***************************************************************************)
Secp256k1 == "Secp256k1"

Ed25519 == "Ed25519"

Algorithm == {Secp256k1, Ed25519}

Address == "Address"

SeedSecP256K1 == "SeedSecP256K1"

SeedEd25519 == "SeedEd25519"

\* prefix with a slip: SeedEd25519 given the prefix of SeedSecP256K1.
prefix_same_for_seeds(settings) ==
   CASE settings = Address -> <<0>>
     [] settings = SeedSecP256K1 -> <<33>>
     [] settings = SeedEd25519 -> <<33>>

prefix(settings) ==
   CASE settings = Address -> <<0>>
     [] settings = SeedSecP256K1 -> <<33>>
     [] settings = SeedEd25519 -> <<1, 225, 75>>

prefix_len(settings) == Len(prefix(settings))

payload_len(settings) ==
   CASE settings = Address -> 20
     [] settings = SeedSecP256K1 -> ENTROPY_LEN
     [] settings = SeedEd25519 -> ENTROPY_LEN

ALG(settings) ==
   CASE settings = SeedSecP256K1 -> Secp256k1
     [] settings = SeedEd25519 -> Ed25519

(***************************************************************************)
(* Encoding.                                                               *)
(***************************************************************************)
encode_bytes(bytes) == base_x_encode(bytes \o calc_checksum(bytes))

\* encode_bytes_with_prefix with a slip: the prefix after the bytes.
encode_bytes_with_suffix(pre, bytes) == encode_bytes(bytes \o pre)

encode_bytes_with_prefix(pre, bytes) == encode_bytes(pre \o bytes)

\* encode_seed with a slip: both arms take the prefix of SeedSecP256K1.
encode_seed_one_prefix(entropy, algorithm) ==
   encode_bytes_with_prefix(
      CASE algorithm = Secp256k1 -> prefix(SeedSecP256K1)
        [] algorithm = Ed25519 -> prefix(SeedSecP256K1),
      entropy)

encode_seed(entropy, algorithm) ==
   encode_bytes_with_prefix(
      CASE algorithm = Secp256k1 -> prefix(SeedSecP256K1)
        [] algorithm = Ed25519 -> prefix(SeedEd25519),
      entropy)

encode_account_id(bytes) == encode_bytes_with_prefix(prefix(Address), bytes)

(***************************************************************************)
(* Decoding.  A Result is Ok(v), DecodeError or, where the code panics,    *)
(* Panic; `r?` hands on whatever is not Ok.                                *)
(***************************************************************************)
decode_with_xrp_alphabet(s) == base_x_decode(s)

\* verify_prefix with a slip: only the first byte is compared.
verify_prefix_first_byte(pre, bytes) ==
   IF Len(bytes) >= 1 /\ bytes[1] = pre[1] THEN Ok(<<>>) ELSE DecodeError

verify_prefix(pre, bytes) ==
   IF Len(bytes) >= Len(pre) /\ SubSeq(bytes, 1, Len(pre)) = pre
   THEN Ok(<<>>)
   ELSE DecodeError

\* verify_payload_len with a slip: the prefix is counted with the payload.
verify_payload_len_with_prefix(bytes, pre_len, expected_len) ==
   IF Len(bytes) < CHECKSUM_LENGTH THEN Panic
   ELSE IF pre_len > Len(bytes) - CHECKSUM_LENGTH THEN Panic
   ELSE IF Len(bytes) - CHECKSUM_LENGTH = expected_len THEN Ok(<<>>)
   ELSE DecodeError

\* bytes[prefix_len..bytes.len() - CHECKSUM_LENGTH].len() == expected_len.
\* With fewer than CHECKSUM_LENGTH bytes the subtraction overflows: a panic
\* where overflow is checked and a range end beyond the slice, a panic too,
\* where it wraps.  A range that starts after its end panics as well.
verify_payload_len(bytes, pre_len, expected_len) ==
   IF Len(bytes) < CHECKSUM_LENGTH THEN Panic
   ELSE IF pre_len > Len(bytes) - CHECKSUM_LENGTH THEN Panic
   ELSE IF (Len(bytes) - CHECKSUM_LENGTH) - pre_len = expected_len THEN Ok(<<>>)
   ELSE DecodeError

verify_checksum_lenght(bytes) ==
   IF Len(bytes) < CHECKSUM_LENGTH + 1 THEN DecodeError ELSE Ok(<<>>)

\* verify_checksum with a slip: only the first byte is compared.
verify_checksum_first_byte(input, checksum) ==
   IF calc_checksum(input)[1] = checksum[1] THEN Ok(<<>>) ELSE DecodeError

verify_checksum(input, checksum) ==
   IF calc_checksum(input) = checksum THEN Ok(<<>>) ELSE DecodeError

get_checked_bytes(bytes_with_checksum) ==
   IF verify_checksum_lenght(bytes_with_checksum).kind # "Ok"
   THEN verify_checksum_lenght(bytes_with_checksum)
   ELSE LET at == Len(bytes_with_checksum) - CHECKSUM_LENGTH
            checksum == SubSeq(bytes_with_checksum, at + 1, Len(bytes_with_checksum))
            bytes == SubSeq(bytes_with_checksum, 1, at)
        IN  IF verify_checksum(bytes, checksum).kind # "Ok"
            THEN verify_checksum(bytes, checksum)
            ELSE Ok(bytes)

\* PayloadOf with a slip: the slice starts one byte early.
PayloadOfOneEarly(checked_bytes, settings) ==
   IF prefix_len(settings) > Len(checked_bytes) THEN Panic
   ELSE Ok(SubSeq(checked_bytes, prefix_len(settings), Len(checked_bytes)))

\* checked_bytes[settings.prefix_len()..]: a range start beyond the slice panics.
PayloadOf(checked_bytes, settings) ==
   IF prefix_len(settings) > Len(checked_bytes) THEN Panic
   ELSE Ok(SubSeq(checked_bytes, prefix_len(settings) + 1, Len(checked_bytes)))

get_payload(bytes, settings) ==
   LET len == verify_payload_len(bytes, prefix_len(settings), payload_len(settings))
       pre == verify_prefix(prefix(settings), bytes)
       checked == get_checked_bytes(bytes)
   IN  IF len.kind # "Ok" THEN len
       ELSE IF pre.kind # "Ok" THEN pre
       ELSE IF checked.kind # "Ok" THEN checked
       ELSE PayloadOf(checked.val, settings)

\* payload.try_into().unwrap() into [u8; n]: a panic unless the length is n.
IntoArray(payload, n) == IF Len(payload) = n THEN Ok(payload) ELSE Panic

decode_account_id(account_id) ==
   LET decoded_bytes == decode_with_xrp_alphabet(account_id)
       payload == get_payload(decoded_bytes.val, Address)
   IN  IF decoded_bytes.kind # "Ok" THEN decoded_bytes
       ELSE IF payload.kind # "Ok" THEN payload
       ELSE IntoArray(payload.val, payload_len(Address))

DecodeSeedWith(s, settings) ==
   LET decoded_bytes == decode_with_xrp_alphabet(s)
       payload == get_payload(decoded_bytes.val, settings)
       entropy == IntoArray(payload.val, ENTROPY_LEN)
   IN  IF decoded_bytes.kind # "Ok" THEN decoded_bytes
       ELSE IF payload.kind # "Ok" THEN payload
       ELSE IF entropy.kind # "Ok" THEN entropy
       ELSE Ok(<<entropy.val, ALG(settings)>>)

decode_seed_secp256k1(s) == DecodeSeedWith(s, SeedSecP256K1)

decode_seed_ed25519(s) == DecodeSeedWith(s, SeedEd25519)

\* Result::or of two results: the first when it is Ok, else the second.
ResultOr(first, second) == IF first.kind = "Ok" THEN first ELSE second

\* a.or(b) evaluates a, then b, then Result::or: a panic in either is a panic
\* of the call, and b is not evaluated after a panic in a.
decode_seed(seed) ==
   LET first == decode_seed_secp256k1(seed)
       second == decode_seed_ed25519(seed)
   IN  IF first.kind = "Panic" THEN Panic
       ELSE IF second.kind = "Panic" THEN Panic
       ELSE ResultOr(first, second)

(***************************************************************************)
(* The inputs of the calls.  Payloads: the arrays of the tests and doc     *)
(* examples and a family of patterned arrays.  Texts: those of the tests   *)
(* (tests/api.rs) and doc examples, short texts, and texts that encode a   *)
(* well-formed checksum after a foreign prefix or a payload of the wrong   *)
(* length.                                                                 *)
(***************************************************************************)
\* The patterned arrays are Pattern(n, 0) .. Pattern(n, MaxPattern).
MaxPattern == 2

\* The short texts have up to MaxShort characters.
MaxShort == 6

Pattern(n, v) == [i \in 1..n |-> (85 * v * i) % 256]

AccountIdVector ==
   <<186, 142, 120, 98, 110, 228, 44, 65, 180, 109, 70, 195, 4, 141, 243, 161,
     195, 200, 112, 114>>

Secp256k1Vector ==
   <<207, 45, 227, 120, 251, 221, 126, 46, 232, 125, 72, 109, 251, 90, 123, 255>>

Ed25519Vector ==
   <<76, 58, 29, 33, 63, 189, 251, 20, 199, 194, 141, 96, 148, 105, 179, 65>>

AccountIds == {AccountIdVector} \cup {Pattern(20, v) : v \in 0..MaxPattern}

Entropies ==
   {Secp256k1Vector, Ed25519Vector} \cup {Pattern(ENTROPY_LEN, v) : v \in 0..MaxPattern}

AccountIdTexts ==
   { <<"r", "_", "0", "0", "0">>,
     <<"r", "J", "r", "R", "M", "g", "W", "y", "P", "b", "Y", "3", "5", "E",
       "r", "N">>,
     <<"b", "J", "r", "R", "M", "g", "i", "R", "g", "r", "U", "6", "h", "D",
       "F", "4", "p", "g", "u", "5", "D", "X", "Q", "d", "W", "y", "P", "b",
       "Y", "3", "5", "E", "r", "N">>,
     <<"r", "J", "r", "R", "M", "g", "i", "R", "g", "r", "U", "6", "h", "D",
       "F", "4", "p", "g", "u", "5", "D", "X", "Q", "d", "W", "y", "P", "b",
       "Y", "3", "5", "E", "r", "A">>,
     <<"r", "J", "r", "R", "M", "g", "i", "R", "g", "r", "U", "6", "h", "D",
       "F", "4", "p", "g", "u", "5", "D", "X", "Q", "d", "W", "y", "P", "b",
       "Y", "3", "5", "E", "r", "N">>,
     <<"r", "r", "r", "r", "r", "r", "r", "r", "r", "r", "r", "r", "r", "r",
       "r", "r", "r", "r", "r", "r", "r", "h", "o", "L", "v", "T", "p">> }

SeedTexts ==
   { <<"s", "_", "0", "0", "0">>,
     <<"s", "n", "2", "5", "9", "r", "E", "F", "X", "r", "Q", "r", "W", "c",
       "w", "V", "6", "d", "f", "L">>,
     <<"S", "n", "2", "5", "9", "r", "E", "F", "X", "r", "Q", "r", "W", "y",
       "x", "3", "Q", "7", "X", "n", "e", "W", "c", "w", "V", "6", "d", "f",
       "L">>,
     <<"s", "n", "2", "5", "9", "r", "E", "F", "X", "r", "Q", "r", "W", "y",
       "x", "3", "Q", "7", "X", "n", "e", "W", "c", "w", "V", "6", "d", "f",
       "A">>,
     <<"s", "n", "2", "5", "9", "r", "E", "F", "X", "r", "Q", "r", "W", "y",
       "x", "3", "Q", "7", "X", "n", "e", "W", "c", "w", "V", "6", "d", "f",
       "L">>,
     <<"s", "p", "6", "J", "S", "7", "f", "1", "4", "B", "u", "w", "F", "Y",
       "8", "M", "w", "6", "b", "T", "t", "L", "K", "W", "a", "u", "o", "U",
       "s">>,
     <<"s", "E", "d", "_", "0", "0", "0">>,
     <<"s", "E", "d", "T", "M", "1", "u", "X", "8">>,
     <<"S", "E", "d", "T", "M", "1", "u", "X", "8", "p", "u", "2", "d", "o",
       "5", "X", "v", "T", "n", "u", "t", "H", "6", "H", "s", "o", "u", "M",
       "a", "M", "2">>,
     <<"s", "E", "d", "T", "M", "1", "u", "X", "8", "p", "u", "2", "d", "o",
       "5", "X", "v", "T", "n", "u", "t", "H", "6", "H", "s", "o", "u", "M",
       "a", "M", "A">>,
     <<"s", "E", "d", "T", "M", "1", "u", "X", "8", "p", "u", "2", "d", "o",
       "5", "X", "v", "T", "n", "u", "t", "H", "6", "H", "s", "o", "u", "M",
       "a", "M", "2">>,
     <<"s", "E", "d", "S", "J", "H", "S", "4", "o", "i", "A", "d", "z", "7",
       "w", "2", "X", "2", "n", "i", "1", "g", "F", "i", "q", "t", "b", "J",
       "H", "q", "E">> }

\* The first n characters of two well-formed texts, for n up to MaxShort.
ShortTexts ==
   {SubSeq(<<"r", "r", "r", "r", "r", "r", "r", "r", "r", "r", "r", "r", "r", "r",
              "r", "r", "r", "r", "r", "r", "r", "h", "o", "L", "v", "T", "p">>,
           1, n) : n \in 0..MaxShort}
   \cup
   {SubSeq(<<"s", "E", "d", "T", "M", "1", "u", "X", "8", "p", "u", "2", "d", "o",
              "5", "X", "v", "T", "n", "u", "t", "H", "6", "H", "s", "o", "u", "M",
              "a", "M", "2">>, 1, n) : n \in 1..MaxShort}

\* Bodies with a well-formed checksum that no descriptor accepts whole: a
\* foreign prefix before a payload of the right length, and each prefix
\* before a payload one byte short or long, or of the other seed's total.
ForgedBodies ==
   { <<1>> \o Pattern(20, 1), <<0>> \o Pattern(19, 1), <<0>> \o Pattern(21, 1),
     <<34>> \o Pattern(16, 1), <<33>> \o Pattern(15, 1), <<33>> \o Pattern(17, 1),
     <<33>> \o Pattern(18, 1),
     <<1, 225, 76>> \o Pattern(16, 1), <<1, 225, 75>> \o Pattern(15, 1),
     <<1, 225, 75>> \o Pattern(17, 1), <<1, 225, 75>> \o Pattern(14, 1) }

ForgedText == [b \in ForgedBodies |-> encode_bytes(b)]

ForgedTexts == {ForgedText[b] : b \in ForgedBodies}

DecodeInputs == AccountIdTexts \cup SeedTexts \cup ShortTexts \cup ForgedTexts

(***************************************************************************)
(* The calls, one statement at a time.  A call of encode_account_id or     *)
(* encode_seed is one step.  A call of decode_account_id or decode_seed    *)
(* runs its decode attempts statement by statement: the base-58 decoding,  *)
(* the three checks of get_payload, the slice after the prefix, and the    *)
(* conversion into an array.                                               *)
(***************************************************************************)
VARIABLES
   op,            \* the function last called, "none" before the first call
   arg,           \* its argument
   pc,            \* "ready" between calls, else the statement about to run
   descriptor,    \* the Settings of the running decode attempt
   decodedBytes,  \* decoded_bytes of the running call
   checkedBytes,  \* checked_bytes of the running attempt
   payloadBytes,  \* what get_payload returned to the running attempt
   trace,         \* the statements run by the call, with Settings and outcome
   attempts,      \* the result of each decode attempt of the call
   result,        \* what the call returned
   last           \* the payload, Settings and text of an encode call whose
                  \* text is being decoded, as in the tests' encode_random

vars ==
   <<op, arg, pc, descriptor, decodedBytes, checkedBytes, payloadBytes, trace,
     attempts, result, last>>

AllSettings == {Address, SeedSecP256K1, SeedEd25519}

NotRun == [kind |-> "NotRun", val |-> <<>>]

NoAttempts == [st \in AllSettings |-> NotRun]

NoLast == [descriptor |-> "none", algorithm |-> "none", bytes |-> <<>>, text |-> <<>>]

Init ==
   /\ op = "none"
   /\ arg = <<>>
   /\ pc = "ready"
   /\ descriptor = "none"
   /\ decodedBytes = <<>>
   /\ checkedBytes = <<>>
   /\ payloadBytes = <<>>
   /\ trace = <<>>
   /\ attempts = NoAttempts
   /\ result = NotRun
   /\ last = NoLast

\* The descriptor whose prefix encode_seed takes for an algorithm.
SettingsOf(algorithm) ==
   CASE algorithm = Secp256k1 -> SeedSecP256K1
     [] algorithm = Ed25519 -> SeedEd25519

Encoded(fn, a, text, st, algorithm, bytes) ==
   /\ op' = fn
   /\ arg' = a
   /\ result' = [kind |-> "String", val |-> text]
   /\ last' = [descriptor |-> st, algorithm |-> algorithm, bytes |-> bytes,
                text |-> text]
   /\ trace' = <<>>
   /\ attempts' = NoAttempts
   /\ descriptor' = "none"
   /\ decodedBytes' = <<>>
   /\ checkedBytes' = <<>>
   /\ payloadBytes' = <<>>
   /\ pc' = "ready"

\* The encode calls of the model, each with what it returns.
AccountIdCalls ==
   {[bytes |-> bytes, text |-> encode_account_id(bytes)] : bytes \in AccountIds}

SeedCalls ==
   {[entropy |-> c[1], algorithm |-> c[2], text |-> encode_seed(c[1], c[2])] :
       c \in Entropies \X Algorithm}

EncodeAccountId ==
   /\ pc = "ready"
   /\ \E c \in AccountIdCalls :
         Encoded("encode_account_id", c.bytes, c.text, Address, "none", c.bytes)

EncodeSeed ==
   /\ pc = "ready"
   /\ \E c \in SeedCalls :
         Encoded("encode_seed", <<c.entropy, c.algorithm>>, c.text,
                 SettingsOf(c.algorithm), c.algorithm, c.entropy)

\* The texts a decode call may be given: the fixed ones and the text of the
\* last encode call.
TextsNow == DecodeInputs \cup (IF last = NoLast THEN {} ELSE {last.text})

StartDecode(fn, s, first) ==
   /\ op' = fn
   /\ arg' = s
   /\ result' = NotRun
   /\ last' = IF s = last.text THEN last ELSE NoLast
   /\ trace' = <<>>
   /\ attempts' = NoAttempts
   /\ descriptor' = first
   /\ decodedBytes' = <<>>
   /\ checkedBytes' = <<>>
   /\ payloadBytes' = <<>>
   /\ pc' = "decode_with_xrp_alphabet"

DecodeAccountId ==
   /\ pc = "ready"
   /\ \E s \in TextsNow : StartDecode("decode_account_id", s, Address)

\* decode_seed evaluates decode_seed_secp256k1(seed) first.
DecodeSeed ==
   /\ pc = "ready"
   /\ \E s \in TextsNow : StartDecode("decode_seed", s, SeedSecP256K1)

\* NextAttempt with a slip: the second attempt only after the first failed,
\* as with or_else.
NextAttemptOnFailure(fn, st, r) ==
   IF fn = "decode_seed" /\ st = SeedSecP256K1 /\ r.kind = "DecodeError"
   THEN SeedEd25519
   ELSE "none"

\* What decode_seed evaluates after the attempt with descriptor st returned
\* r: the argument of `.or(..)`, decode_seed_ed25519(seed), after the first
\* attempt returned anything at all; "none" after the second, after a panic
\* and in decode_account_id.
NextAttempt(fn, st, r) ==
   IF fn = "decode_seed" /\ st = SeedSecP256K1 /\ r.kind # "Panic"
   THEN SeedEd25519
   ELSE "none"

\* What the call returns once its last attempt ended with r.
Returned(fn, r, first) ==
   IF r.kind = "Panic" THEN Panic
   ELSE IF fn = "decode_seed" THEN ResultOr(first, r)
   ELSE r

\* The running attempt ends with r: the next attempt starts or the call returns.
EndAttempt(r) ==
   LET next == NextAttempt(op, descriptor, r)
   IN  /\ attempts' = [attempts EXCEPT ![descriptor] = r]
       /\ IF next # "none"
          THEN /\ descriptor' = next
               /\ pc' = "decode_with_xrp_alphabet"
               /\ result' = result
          ELSE /\ descriptor' = descriptor
               /\ pc' = "ready"
               /\ result' = Returned(op, r, attempts[SeedSecP256K1])
       /\ checkedBytes' = <<>>
       /\ payloadBytes' = <<>>

\* After with a slip: get_payload checks the checksum before the prefix.
AfterChecksumFirst(step) ==
   CASE step = "decode_with_xrp_alphabet" -> "verify_payload_len"
     [] step = "verify_payload_len" -> "get_checked_bytes"
     [] step = "get_checked_bytes" -> "verify_prefix"
     [] step = "verify_prefix" -> "get_payload_return"
     [] step = "get_payload_return" -> "try_into"

\* The statement that follows `step` in a decode attempt when `step` is Ok:
\* decode_with_xrp_alphabet(s)? in the decode function, then the statements
\* of get_payload, then the conversion of what get_payload returned.
After(step) ==
   CASE step = "decode_with_xrp_alphabet" -> "verify_payload_len"
     [] step = "verify_payload_len" -> "verify_prefix"
     [] step = "verify_prefix" -> "get_checked_bytes"
     [] step = "get_checked_bytes" -> "get_payload_return"
     [] step = "get_payload_return" -> "try_into"

\* The statement `step` ran with outcome r.
Ran(step, r) ==
   trace' = Append(trace,
                   [descriptor |-> descriptor, step |-> step, kind |-> r.kind])

\* let decoded_bytes = decode_with_xrp_alphabet(s)?;
DecodeWithXrpAlphabet ==
   /\ pc = "decode_with_xrp_alphabet"
   /\ LET r == decode_with_xrp_alphabet(arg)
      IN  /\ Ran("decode_with_xrp_alphabet", r)
          /\ IF r.kind = "Ok"
             THEN /\ decodedBytes' = r.val
                  /\ pc' = After("decode_with_xrp_alphabet")
                  /\ UNCHANGED <<descriptor, checkedBytes, payloadBytes, attempts,
                                 result>>
             ELSE /\ decodedBytes' = decodedBytes
                  /\ EndAttempt(r)
   /\ UNCHANGED <<op, arg, last>>

\* verify_payload_len(&bytes, settings.prefix_len(), settings.payload_len())?;
VerifyPayloadLen ==
   /\ pc = "verify_payload_len"
   /\ LET r == verify_payload_len(decodedBytes, prefix_len(descriptor),
                                 payload_len(descriptor))
      IN  /\ Ran("verify_payload_len", r)
          /\ IF r.kind = "Ok"
             THEN /\ pc' = After("verify_payload_len")
                  /\ UNCHANGED <<descriptor, checkedBytes, payloadBytes, attempts,
                                 result>>
             ELSE EndAttempt(r)
   /\ UNCHANGED <<op, arg, decodedBytes, last>>

\* verify_prefix(settings.prefix(), &bytes)?;
VerifyPrefix ==
   /\ pc = "verify_prefix"
   /\ LET r == verify_prefix(prefix(descriptor), decodedBytes)
      IN  /\ Ran("verify_prefix", r)
          /\ IF r.kind = "Ok"
             THEN /\ pc' = After("verify_prefix")
                  /\ UNCHANGED <<descriptor, checkedBytes, payloadBytes, attempts,
                                 result>>
             ELSE EndAttempt(r)
   /\ UNCHANGED <<op, arg, decodedBytes, last>>

\* let checked_bytes = get_checked_bytes(bytes)?;
GetCheckedBytes ==
   /\ pc = "get_checked_bytes"
   /\ LET r == get_checked_bytes(decodedBytes)
      IN  /\ Ran("get_checked_bytes", r)
          /\ IF r.kind = "Ok"
             THEN /\ checkedBytes' = r.val
                  /\ pc' = After("get_checked_bytes")
                  /\ UNCHANGED <<descriptor, payloadBytes, attempts, result>>
             ELSE EndAttempt(r)
   /\ UNCHANGED <<op, arg, decodedBytes, last>>

\* Ok(checked_bytes[settings.prefix_len()..].try_into().unwrap())
GetPayloadReturn ==
   /\ pc = "get_payload_return"
   /\ LET r == PayloadOf(checkedBytes, descriptor)
      IN  /\ Ran("get_payload_return", r)
          /\ IF r.kind = "Ok"
             THEN /\ payloadBytes' = r.val
                  /\ pc' = After("get_payload_return")
                  /\ UNCHANGED <<descriptor, checkedBytes, attempts, result>>
             ELSE EndAttempt(r)
   /\ UNCHANGED <<op, arg, decodedBytes, last>>

\* Ok(payload.try_into().unwrap()) and Ok((payload.try_into().unwrap(), &ALG))
TryInto ==
   /\ pc = "try_into"
   /\ LET array == IntoArray(payloadBytes, payload_len(descriptor))
          r == IF array.kind # "Ok" \/ descriptor = Address THEN array
               ELSE Ok(<<array.val, ALG(descriptor)>>)
      IN  /\ Ran("try_into", r)
          /\ EndAttempt(r)
   /\ UNCHANGED <<op, arg, decodedBytes, last>>

Next ==
   \/ EncodeAccountId
   \/ EncodeSeed
   \/ DecodeAccountId
   \/ DecodeSeed
   \/ DecodeWithXrpAlphabet
   \/ VerifyPayloadLen
   \/ VerifyPrefix
   \/ GetCheckedBytes
   \/ GetPayloadReturn
   \/ TryInto

Spec == Init /\ [][Next]_vars

(***************************************************************************)
(* The statement-by-statement calls return what the functions return.      *)
(***************************************************************************)
StepwiseAgrees ==
   pc = "ready" =>
      /\ op = "decode_account_id" => result = decode_account_id(arg)
      /\ op = "decode_seed" => result = decode_seed(arg)
      /\ op = "decode_seed" /\ attempts[SeedSecP256K1] # NotRun =>
            attempts[SeedSecP256K1] = decode_seed_secp256k1(arg)
      /\ op = "decode_seed" /\ attempts[SeedEd25519] # NotRun =>
            attempts[SeedEd25519] = decode_seed_ed25519(arg)

(***************************************************************************)
(* The properties.  They state the formats in their own terms: the prefix  *)
(* bytes and the lengths are written out here, not taken from the model of *)
(* the descriptors.                                                        *)
(***************************************************************************)
StatedPrefix(st) ==
   CASE st = Address -> <<0>>
     [] st = SeedSecP256K1 -> <<33>>
     [] st = SeedEd25519 -> <<1, 225, 75>>

StatedPayloadLen(st) == IF st = Address THEN 20 ELSE 16

\* prefix_len + payload_length + 4
StatedTotalLen(st) == Len(StatedPrefix(st)) + StatedPayloadLen(st) + 4

Decoding == op \in {"decode_account_id", "decode_seed"}

\* A decode call has returned (or panicked).
Decoded == pc = "ready" /\ Decoding

Attempted(st) == attempts[st] # NotRun

AlphabetValid(s) == \A i \in 1..Len(s) : \E k \in 1..58 : ALPHABET[k] = s[i]

StartsWith(bytes, pre) ==
   Len(bytes) >= Len(pre) /\ \A i \in 1..Len(pre) : bytes[i] = pre[i]

\* The trailing 4 bytes are the checksum of the bytes before them.
ChecksumValid(bytes) ==
   /\ Len(bytes) > 4
   /\ SubSeq(bytes, Len(bytes) - 3, Len(bytes))
         = calc_checksum(SubSeq(bytes, 1, Len(bytes) - 4))

\* C1: decoding the text encode_account_id returned for a 20-byte array
\* returns Ok of that array.
AccountIdRoundTrip ==
   (/\ pc = "ready"
    /\ op = "decode_account_id"
    /\ last.descriptor = Address
    /\ arg = last.text)
      => result = Ok(last.bytes)

AccountIdRoundTripWitness ==
   /\ pc = "ready"
   /\ op = "decode_account_id"
   /\ last.descriptor = Address
   /\ arg = last.text
   /\ last.bytes = AccountIdVector
   /\ result.kind = "Ok"

\* C2: decoding the text encode_seed returned for a 16-byte entropy and an
\* algorithm returns Ok of that entropy and that algorithm.
SeedRoundTrip ==
   (/\ pc = "ready"
    /\ op = "decode_seed"
    /\ last.algorithm \in {"Secp256k1", "Ed25519"}
    /\ arg = last.text)
      => result = Ok(<<last.bytes, last.algorithm>>)

SeedRoundTripWitness ==
   /\ pc = "ready"
   /\ op = "decode_seed"
   /\ arg = last.text
   /\ last.algorithm = Ed25519
   /\ last.bytes = Ed25519Vector
   /\ result.kind = "Ok"

\* C3: for every text over the alphabet whose decoded bytes number other
\* than prefix_len + payload_length + 4, decode_account_id and decode_seed
\* return DecodeError, down to the empty buffer, and no decode call aborts.
LengthRejectionTotal ==
   (Decoded /\ AlphabetValid(arg)) =>
      /\ result.kind # "Panic"
      /\ \A st \in AllSettings :
            (Attempted(st) /\ Len(decodedBytes) # StatedTotalLen(st))
               => attempts[st] = DecodeError
      /\ (op = "decode_account_id" /\ Len(decodedBytes) # StatedTotalLen(Address))
            => result = DecodeError
      /\ (/\ op = "decode_seed"
          /\ Len(decodedBytes) # StatedTotalLen(SeedSecP256K1)
          /\ Len(decodedBytes) # StatedTotalLen(SeedEd25519))
            => result = DecodeError

\* C4: an attempt on bytes with the descriptor's prefix and the right total
\* length returns Ok exactly when the trailing 4 bytes are the checksum of
\* the bytes before them, and DecodeError otherwise.
ChecksumRejection ==
   Decoded =>
      \A st \in AllSettings :
         /\ (/\ Attempted(st)
             /\ Len(decodedBytes) = StatedTotalLen(st)
             /\ StartsWith(decodedBytes, StatedPrefix(st)))
            => IF ChecksumValid(decodedBytes)
               THEN attempts[st].kind = "Ok"
               ELSE attempts[st] = DecodeError
         /\ attempts[st].kind = "Ok" => ChecksumValid(decodedBytes)

\* An attempt rejected for its checksum alone.
ChecksumRejectionWitness ==
   /\ Decoded
   /\ \E st \in AllSettings :
         /\ Attempted(st)
         /\ Len(decodedBytes) = StatedTotalLen(st)
         /\ StartsWith(decodedBytes, StatedPrefix(st))
         /\ ~ChecksumValid(decodedBytes)
         /\ attempts[st] = DecodeError

\* C5: an attempt on bytes of the right total length and with a valid
\* checksum that do not start with the descriptor's prefix returns
\* DecodeError.
PrefixRejection ==
   Decoded =>
      \A st \in AllSettings :
         (/\ Attempted(st)
          /\ Len(decodedBytes) = StatedTotalLen(st)
          /\ ~StartsWith(decodedBytes, StatedPrefix(st))
          /\ ChecksumValid(decodedBytes))
            => attempts[st] = DecodeError

\* An Ed25519 attempt rejected for its prefix alone, and only for the last
\* byte of it.
PrefixRejectionWitness ==
   /\ Decoded
   /\ Attempted(SeedEd25519)
   /\ Len(decodedBytes) = StatedTotalLen(SeedEd25519)
   /\ StartsWith(decodedBytes, <<1, 225>>)
   /\ ~StartsWith(decodedBytes, StatedPrefix(SeedEd25519))
   /\ ChecksumValid(decodedBytes)
   /\ attempts[SeedEd25519] = DecodeError

\* C6: the Secp256k1 attempt and the Ed25519 attempt of a decode_seed call
\* never both succeed.
PrefixDisjointness ==
   op = "decode_seed" =>
      ~(attempts[SeedSecP256K1].kind = "Ok" /\ attempts[SeedEd25519].kind = "Ok")

\* Both attempts ran and one of them succeeded.
PrefixDisjointnessWitness ==
   /\ pc = "ready"
   /\ op = "decode_seed"
   /\ attempts[SeedSecP256K1].kind = "Ok"
   /\ attempts[SeedEd25519] = DecodeError

\* C7: when decoding a text succeeds, encoding the payload with the same
\* kind (for a seed, with the returned algorithm) gives the text back.
DecodeThenEncode ==
   (Decoded /\ result.kind = "Ok") =>
      IF op = "decode_account_id"
      THEN encode_account_id(result.val) = arg
      ELSE encode_seed(result.val[1], result.val[2]) = arg

\* A text that no encode call of the model produced decoded to a payload.
DecodeThenEncodeWitness ==
   /\ Decoded
   /\ result.kind = "Ok"
   /\ last = NoLast
   /\ op = "decode_seed"
   /\ result.val[2] = Ed25519

HasReturned(r) == r.kind \in {"Ok", "DecodeError"}

\* C8 as stated: the Ed25519 descriptor is attempted only after the
\* Secp256k1 attempt failed.
SeedSecondOnlyOnFailure ==
   (op = "decode_seed" /\ \E i \in 1..Len(trace) : trace[i].descriptor = SeedEd25519)
      => attempts[SeedSecP256K1] = DecodeError

\* C8, amended: decode_seed attempts the Secp256k1 descriptor first and then,
\* whatever that attempt returned, the Ed25519 descriptor; when both
\* attempts have returned, the result is the Secp256k1 result when that is
\* Ok and the Ed25519 result otherwise.
SeedBothInOrder ==
   op = "decode_seed" =>
      /\ \A i \in 1..Len(trace) :
            /\ trace[i].descriptor \in {SeedSecP256K1, SeedEd25519}
            /\ \A j \in 1..Len(trace) :
                  (i < j /\ trace[j].descriptor = SeedSecP256K1)
                     => trace[i].descriptor = SeedSecP256K1
      /\ Attempted(SeedEd25519) => HasReturned(attempts[SeedSecP256K1])
      /\ pc = "ready" =>
            /\ HasReturned(attempts[SeedSecP256K1]) => Attempted(SeedEd25519)
            /\ (HasReturned(attempts[SeedSecP256K1]) /\ HasReturned(attempts[SeedEd25519]))
                  => result = IF attempts[SeedSecP256K1].kind = "Ok"
                              THEN attempts[SeedSecP256K1]
                              ELSE attempts[SeedEd25519]

\* The Ed25519 attempt ran after the Secp256k1 attempt had succeeded.
SeedBothInOrderWitness ==
   /\ pc = "ready"
   /\ op = "decode_seed"
   /\ attempts[SeedSecP256K1].kind = "Ok"
   /\ Attempted(SeedEd25519)
   /\ \E i \in 1..Len(trace) : trace[i].descriptor = SeedEd25519
   /\ result = attempts[SeedSecP256K1]

\* The statements of an attempt, in the order stated.
StatedOrder ==
   << "decode_with_xrp_alphabet", "verify_payload_len", "verify_prefix",
      "get_checked_bytes", "get_payload_return", "try_into" >>

\* The statements run for descriptor st.
StatementsOf(st) == SelectSeq(trace, LAMBDA e : e.descriptor = st)

\* C9: an attempt runs the base-58 decoding, then the length check, then the
\* prefix check, then the checksum check; a statement runs only after all
\* those before it passed, and payload bytes are returned only after the
\* three checks passed.
ValidationOrder ==
   Decoding =>
      \A st \in AllSettings :
         LET t == StatementsOf(st)
         IN  /\ Len(t) <= Len(StatedOrder)
             /\ \A i \in 1..Len(t) :
                   /\ t[i].step = StatedOrder[i]
                   /\ i < Len(t) => t[i].kind = "Ok"
             /\ (st = descriptor /\ pc = "try_into") =>
                   (Len(t) = 5 /\ t[5].kind = "Ok")
             /\ attempts[st].kind = "Ok" => Len(t) = Len(StatedOrder)

\* An attempt stopped at the prefix check, after the length check passed.
ValidationOrderWitness ==
   /\ Decoded
   /\ \E st \in AllSettings :
         LET t == StatementsOf(st)
         IN  /\ Len(t) = 3
             /\ t[3].step = "verify_prefix"
             /\ t[3].kind = "DecodeError"
             /\ attempts[st] = DecodeError

\* C10: what get_payload returns is the decoded bytes after the prefix and
\* before the 4 checksum bytes, payload_length of them, and the conversion
\* into an array never fails.
ExactPayload ==
   /\ pc = "try_into" =>
         /\ payloadBytes = SubSeq(decodedBytes, Len(StatedPrefix(descriptor)) + 1,
                                  Len(decodedBytes) - 4)
         /\ Len(payloadBytes) = StatedPayloadLen(descriptor)
   /\ \A i \in 1..Len(trace) :
         trace[i].step \in {"get_payload_return", "try_into"} => trace[i].kind = "Ok"

\* get_payload returned to an Ed25519 attempt and the conversion succeeded.
ExactPayloadWitness ==
   /\ Decoded
   /\ attempts[SeedEd25519].kind = "Ok"
   /\ attempts[SeedEd25519].val[1] = Ed25519Vector
   /\ \E i \in 1..Len(trace) :
         /\ trace[i].descriptor = SeedEd25519
         /\ trace[i].step = "try_into"
         /\ trace[i].kind = "Ok"
====
